---- MODULE Spec2Model ----
(***************************************************************************)
(* Model of src/app.py: the material catalog (VeritabaniYoneticisi), the   *)
(* estimator (EvHesaplayici) and the request handler calculate_cost.       *)
(*                                                                         *)
(* Python floats are modelled as exact rationals [n |-> _, d |-> _] in     *)
(* lowest terms with d > 0.  Non-numeric Python values that the code puts  *)
(* where a number is expected are modelled with d = 0:                     *)
(*   NA       the string "N/A" of the overhead line,                       *)
(*   Tanimsiz a local variable that has not been assigned yet.             *)
(* Strings are written in ASCII, without the diacritics of the source:     *)
(* "Cati Paneli", "Duz", "Ic Kapi", "Dis Kapi", "Ana Giris".               *)
(***************************************************************************)
EXTENDS Integers, Sequences, FiniteSets, TLC

\* ------------------------------------------------------------------ bounds
MaxOda == 2
MaxAdet == 2
MaxEksik == 2
MaxGun == 3
MaxEkleme == 3
MaxMalzeme == 3

\* --------------------------------------------------------- exact arithmetic
Abs(x) == IF x < 0 THEN -x ELSE x

RECURSIVE GCD(_, _)
GCD(a, b) == IF b = 0 THEN a ELSE GCD(b, a % b)

R(n, d) ==
    LET s == IF d < 0 THEN -1 ELSE 1
        g == GCD(Abs(n), Abs(d))
    IN  [n |-> (s * n) \div g, d |-> (s * d) \div g]

Tam(k) == [n |-> k, d |-> 1]
Sifir == Tam(0)
Bir == Tam(1)
NA == [n |-> 0, d |-> 0]
Tanimsiz == [n |-> 1, d |-> 0]
IsSayi(x) == x.d # 0

RAdd(a, b) ==
    LET g == GCD(a.d, b.d)
    IN  R(a.n * (b.d \div g) + b.n * (a.d \div g), (a.d \div g) * b.d)
RNeg(a) == [n |-> -a.n, d |-> a.d]
RSub(a, b) == RAdd(a, RNeg(b))
RMul(a, b) ==
    LET g1 == GCD(Abs(a.n), b.d)
        g2 == GCD(Abs(b.n), a.d)
        h1 == IF g1 = 0 THEN 1 ELSE g1
        h2 == IF g2 = 0 THEN 1 ELSE g2
    IN  R((a.n \div h1) * (b.n \div h2), (a.d \div h2) * (b.d \div h1))
RDiv(a, b) == RMul(a, R(b.d, b.n))
RLt(a, b) == a.n * b.d < b.n * a.d
RLe(a, b) == a.n * b.d <= b.n * a.d
RAbs(a) == [n |-> Abs(a.n), d |-> a.d]


\* ------------------------------------------------------------ the catalog
\* Rows inserted by startup_event.  Unit prices are in units of 10 TL.
MalzemeSatiri(id, adi, kategori, birim, fire) ==
    [malzeme_id |-> id, malzeme_adi |-> adi, malzeme_kategori |-> kategori,
     birim_olcu_tipi |-> birim, varsayilan_fire_orani |-> fire]

TohumMalzemeler ==
    << MalzemeSatiri(1, "Duvar Paneli", "Yapisal", "m2", R(5, 100)),
       MalzemeSatiri(2, "Cati Paneli", "Yapisal", "m2", R(7, 100)),
       MalzemeSatiri(3, "Fayans", "Zemin Kaplama", "m2", R(10, 100)),
       MalzemeSatiri(4, "Laminat Parke", "Zemin Kaplama", "m2", R(7, 100)),
       MalzemeSatiri(5, "Boya", "Duvar Kaplama", "litre", R(5, 100)),
       MalzemeSatiri(6, "PVC Pencere", "Dograma", "adet", Sifir),
       MalzemeSatiri(7, "Ic Kapi", "Dograma", "adet", Sifir),
       MalzemeSatiri(8, "Dis Kapi", "Dograma", "adet", Sifir) >>

MalzemeAdlari == {TohumMalzemeler[k].malzeme_adi : k \in DOMAIN TohumMalzemeler}

FiyatSatiri(id, mid, fiyat, tarih) ==
    [fiyat_id |-> id, malzeme_id |-> mid, birim_fiyat |-> fiyat,
     gecerlilik_tarihi |-> tarih]

TohumFiyatlar ==
    << FiyatSatiri(1, 1, Tam(12), 1), FiyatSatiri(2, 2, Tam(15), 1),
       FiyatSatiri(3, 3, Tam(5), 1), FiyatSatiri(4, 4, Tam(8), 1),
       FiyatSatiri(5, 5, Tam(5), 1), FiyatSatiri(6, 6, Tam(150), 1),
       FiyatSatiri(7, 7, Tam(80), 1), FiyatSatiri(8, 8, Tam(200), 1) >>

TohumSarfiyatlar ==
    << [sarfiyat_id |-> 1, malzeme_id |-> 5, uygulama_turu |-> "Duvar",
        sarfiyat_degeri |-> R(15, 100)] >>

\* The TEXT column ek_ozellikler: NULL, a text json.loads rejects, or the text
\* of a JSON object, given as the set of its <<key, value>> members.
JsonNull == [bicim |-> "NULL", nesne |-> {}]
JsonBozuk == [bicim |-> "bozuk", nesne |-> {}]
JsonNesne(uyeler) == [bicim |-> "json", nesne |-> uyeler]

DetaySatiri(id, oda, alan_adi, ek) ==
    [detay_id |-> id, oda_tipi |-> oda, uygulama_alani |-> alan_adi,
     ek_ozellikler |-> ek]

\* The rows of startup_event for the rooms "Banyo" and "Salon", with the
\* property bag of the floor row z and of the wall row w left open.
DetayTablosu(z, w) ==
    << DetaySatiri(1, "Banyo", "Zemin", z),
       DetaySatiri(2, "Salon", "Duvar", w),
       DetaySatiri(3, "Salon", "Zemin", JsonNesne({})) >>

TohumDetaylar ==
    DetayTablosu(JsonNesne({<<"fayans_boyut_m2", R(9, 100)>>}),
                 JsonNesne({<<"kat_sayisi", Tam(2)>>}))

\* ------------------------------------------------- VeritabaniYoneticisi
\* veri_sorgula: SELECT * FROM tablo WHERE k1 = v1 AND ..., in rowid order.
veri_sorgula(tablo, kosul(_)) == SelectSeq(tablo, kosul)

\* GuncelFiyat with the ties of a date broken by the smallest fiyat_id.
GuncelFiyat_IlkEklenen(fiyatlar, mid) ==
    LET aday == {k \in DOMAIN fiyatlar : fiyatlar[k].malzeme_id = mid}
        Once(a, b) ==
            \/ fiyatlar[a].gecerlilik_tarihi > fiyatlar[b].gecerlilik_tarihi
            \/ /\ fiyatlar[a].gecerlilik_tarihi = fiyatlar[b].gecerlilik_tarihi
               /\ fiyatlar[a].fiyat_id <= fiyatlar[b].fiyat_id
    IN  IF aday = {} THEN <<>>
        ELSE << fiyatlar[CHOOSE a \in aday : \A b \in aday : Once(a, b)] >>

\* ORDER BY gecerlilik_tarihi DESC, fiyat_id DESC LIMIT 1
GuncelFiyat(fiyatlar, mid) ==
    LET aday == {k \in DOMAIN fiyatlar : fiyatlar[k].malzeme_id = mid}
        Once(a, b) ==
            \/ fiyatlar[a].gecerlilik_tarihi > fiyatlar[b].gecerlilik_tarihi
            \/ /\ fiyatlar[a].gecerlilik_tarihi = fiyatlar[b].gecerlilik_tarihi
               /\ fiyatlar[a].fiyat_id >= fiyatlar[b].fiyat_id
    IN  IF aday = {} THEN <<>>
        ELSE << fiyatlar[CHOOSE a \in aday : \A b \in aday : Once(a, b)] >>

\* malzeme_bilgisi_getir with the category looked up before the name.
malzeme_bilgisi_getir_OnceKategori(db, ad) ==
    LET AdIle(r) == r.malzeme_adi = ad
        KategoriIle(r) == r.malzeme_kategori = ad
        kategoriyle == veri_sorgula(db.Malzemeler, KategoriIle)
        malzeme_data == IF kategoriyle # <<>> THEN kategoriyle
                        ELSE veri_sorgula(db.Malzemeler, AdIle)
    IN  IF malzeme_data = <<>> THEN <<>>
        ELSE LET malzeme == malzeme_data[1]
                 Sarf(r) == r.malzeme_id = malzeme.malzeme_id
             IN  << [malzeme |-> malzeme,
                     fiyat |-> GuncelFiyat(db.Fiyatlar, malzeme.malzeme_id),
                     sarfiyat |-> veri_sorgula(db.Sarfiyatlar, Sarf)] >>

\* malzeme_bilgisi_getir: <<>> models None; otherwise a one-element sequence
\* holding the dictionary {"malzeme", "fiyat", "sarfiyat"}, where fiyat is
\* <<>> for None.
malzeme_bilgisi_getir(db, ad) ==
    LET AdIle(r) == r.malzeme_adi = ad
        KategoriIle(r) == r.malzeme_kategori = ad
        adla == veri_sorgula(db.Malzemeler, AdIle)
        malzeme_data == IF adla # <<>> THEN adla
                        ELSE veri_sorgula(db.Malzemeler, KategoriIle)
    IN  IF malzeme_data = <<>> THEN <<>>
        ELSE LET malzeme == malzeme_data[1]
                 Sarf(r) == r.malzeme_id = malzeme.malzeme_id
             IN  << [malzeme |-> malzeme,
                     fiyat |-> GuncelFiyat(db.Fiyatlar, malzeme.malzeme_id),
                     sarfiyat |-> veri_sorgula(db.Sarfiyatlar, Sarf)] >>

\* `malzeme_info and malzeme_info["fiyat"]`
Fiyatli(info) == info # <<>> /\ info[1].fiyat # <<>>

\* The property-bag lookup of lines 271-278 and 316-323: the first row for
\* (oda_adi, alan_adi); {} when there is no row, the column is NULL or empty,
\* or json.loads raises JSONDecodeError.
ek_ozellikler_getir(db, oda_adi, alan_adi) ==
    LET Kosul(r) == r.oda_tipi = oda_adi /\ r.uygulama_alani = alan_adi
        raw == veri_sorgula(db.UygulamaDetaylari, Kosul)
    IN  IF raw # <<>> /\ raw[1].ek_ozellikler.bicim = "json"
        THEN raw[1].ek_ozellikler.nesne
        ELSE {}

\* Python dict operations on a property bag.
Icinde(anahtar, sozluk) == \E u \in sozluk : u[1] = anahtar
Deger(sozluk, anahtar) == (CHOOSE u \in sozluk : u[1] = anahtar)[2]
\* dict.get(anahtar, varsayilan)
get(sozluk, anahtar, varsayilan) ==
    IF Icinde(anahtar, sozluk) THEN Deger(sozluk, anahtar) ELSE varsayilan

\* ------------------------------------------------------------- geometry
\* math.cos(math.radians(aci)) for the pitch angles of the model.  The float
\* cos of 90 degrees is 6.1e-17, which like 0 is below the 0.001 threshold.
Acilar == {-60, 0, 60, 90, 120}
Cos(aci) ==
    CASE aci = 0 -> Bir
      [] aci = 60 -> R(1, 2)
      [] aci = -60 -> R(1, 2)
      [] aci = 90 -> Sifir
      [] aci = 120 -> R(-1, 2)

RECURSIVE AcikliklarAlani(_)
\* sum(x["genislik"] * x["yukseklik"] * x["adet"] for x in liste)
AcikliklarAlani(liste) ==
    IF liste = <<>> THEN 0
    ELSE liste[1].genislik * liste[1].yukseklik * liste[1].adet
         + AcikliklarAlani(Tail(liste))

OdaZemin(oda) == oda.uzunluk * oda.genislik
OdaDuvar(oda) == 2 * (oda.uzunluk + oda.genislik) * oda.yukseklik

RECURSIVE ToplamTaban(_)
ToplamTaban(odalar) ==
    IF odalar = <<>> THEN 0 ELSE OdaZemin(odalar[1]) + ToplamTaban(Tail(odalar))

RECURSIVE ToplamDuvarBrut(_)
ToplamDuvarBrut(odalar) ==
    IF odalar = <<>> THEN 0 ELSE OdaDuvar(odalar[1]) + ToplamDuvarBrut(Tail(odalar))

\* self.oda_alanlari: a dict keyed by oda_adi, so a later room of the same
\* name replaces the entry of an earlier one.
OdaAlanlari(odalar) ==
    LET adlar == {odalar[k].oda_adi : k \in DOMAIN odalar}
        Son(ad) == CHOOSE k \in DOMAIN odalar :
                      /\ odalar[k].oda_adi = ad
                      /\ \A j \in DOMAIN odalar : odalar[j].oda_adi = ad => j <= k
    IN  [ad \in adlar |-> [zemin |-> Tam(OdaZemin(odalar[Son(ad)])),
                           duvar |-> Tam(OdaDuvar(odalar[Son(ad)]))]]

\* CatiAlani with the footprint divided by every floor count other than 0.
CatiAlani_SifirDisindaBolerek(ev, toplam_taban) ==
    LET taban_alani_her_kat ==
            IF ev.kat_sayisi # 0 THEN R(toplam_taban, ev.kat_sayisi)
            ELSE Tam(toplam_taban)
        cos_angle == Cos(ev.cati_egim_acisi)
    IN  IF ev.cati_tipi # "Duz" /\ ev.cati_egim_acisi > 0
        THEN IF RLt(RAbs(cos_angle), R(1, 1000))
             THEN RMul(taban_alani_her_kat, Tam(2))
             ELSE RDiv(taban_alani_her_kat, cos_angle)
        ELSE taban_alani_her_kat

\* Lines 190-204.
CatiAlani(ev, toplam_taban) ==
    LET taban_alani_her_kat ==
            IF ev.kat_sayisi > 0 THEN R(toplam_taban, ev.kat_sayisi)
            ELSE Tam(toplam_taban)
        cos_angle == Cos(ev.cati_egim_acisi)
    IN  IF ev.cati_tipi # "Duz" /\ ev.cati_egim_acisi > 0
        THEN IF RLt(RAbs(cos_angle), R(1, 1000))
             THEN RMul(taban_alani_her_kat, Tam(2))
             ELSE RDiv(taban_alani_her_kat, cos_angle)
        ELSE taban_alani_her_kat

_alan_hesapla(ev) ==
    [toplam_pencere_alani |-> Tam(AcikliklarAlani(ev.pencere_listesi)),
     toplam_kapi_alani |-> Tam(AcikliklarAlani(ev.kapi_listesi)),
     oda_alanlari |-> OdaAlanlari(ev.oda_listesi),
     toplam_taban_alani |-> Tam(ToplamTaban(ev.oda_listesi)),
     toplam_duvar_alani_brut |-> Tam(ToplamDuvarBrut(ev.oda_listesi)),
     cati_alani |-> CatiAlani(ev, ToplamTaban(ev.oda_listesi))]

\* Lines 212-213.
NetDuvarPaneller(a) ==
    LET net == RSub(RSub(a.toplam_duvar_alani_brut, a.toplam_pencere_alani),
                    a.toplam_kapi_alani)
    IN  IF RLt(net, Sifir) THEN Sifir ELSE net

\* OdaDuvarNet with all the openings of the house taken off each room.
OdaDuvarNet_TumAcikliklar(a, oda_adi) ==
    LET oda_duvar_alani_brut == a.oda_alanlari[oda_adi].duvar
        net == RSub(oda_duvar_alani_brut,
                    RAdd(a.toplam_pencere_alani, a.toplam_kapi_alani))
    IN  IF RLt(net, Sifir) THEN Sifir ELSE net

\* Lines 256-262: the net wall area of the room named oda_adi.
OdaDuvarNet(a, oda_adi) ==
    LET oda_duvar_alani_brut == a.oda_alanlari[oda_adi].duvar
        pencere_kapi_bosluk_orani ==
            IF RLt(Sifir, a.toplam_duvar_alani_brut)
            THEN RMul(RDiv(oda_duvar_alani_brut, a.toplam_duvar_alani_brut),
                      RAdd(a.toplam_pencere_alani, a.toplam_kapi_alani))
            ELSE Sifir
        net == RSub(oda_duvar_alani_brut, pencere_kapi_bosluk_orani)
    IN  IF RLt(net, Sifir) THEN Sifir ELSE net

\* ---------------------------------------------------------------- state
VARIABLES
    Malzemeler,             \* table Malzemeler
    Fiyatlar,               \* table Fiyatlar
    Sarfiyatlar,            \* table Sarfiyatlar
    UygulamaDetaylari,      \* table UygulamaDetaylari
    cagiran,                \* who constructed the EvHesaplayici
    ev_bilgileri,           \* EvHesaplayici.ev_bilgileri
    pc,                     \* position inside malzeme_ihtiyacini_hesapla
    i,                      \* index of the loop the run is in
    alan,                   \* the fields _alan_hesapla sets
    malzeme_ihtiyaclari,    \* EvHesaplayici.malzeme_ihtiyaclari
    toplam_maliyet_temp,    \* local of malzeme_ihtiyacini_hesapla
    maliyet,                \* local of malzeme_ihtiyacini_hesapla
    toplam_proje_maliyeti,  \* EvHesaplayici.toplam_proje_maliyeti
    messages,               \* local of calculate_cost
    atlanan,                \* history: steps that produced no line
    bugun,                  \* datetime.date.today()
    conn,                   \* db_yoneticisi.conn: 0 is None, 1 a connection made by
                            \* the thread of the run, 2 one made by another thread
    tutulan                 \* what the baglan calls of the run's pending query returned

vars == << Malzemeler, Fiyatlar, Sarfiyatlar, UygulamaDetaylari, cagiran,
           ev_bilgileri, pc, i, alan, malzeme_ihtiyaclari, toplam_maliyet_temp,
           maliyet, toplam_proje_maliyeti, messages, atlanan, bugun, conn,
           tutulan >>

\* The clock and the shared connection, which no step of a run assigns.
cevre == << bugun, conn, tutulan >>

dbvars == << Malzemeler, Fiyatlar, Sarfiyatlar, UygulamaDetaylari >>

db == [Malzemeler |-> Malzemeler, Fiyatlar |-> Fiyatlar,
       Sarfiyatlar |-> Sarfiyatlar, UygulamaDetaylari |-> UygulamaDetaylari]

\* ------------------------------------------------------- result mapping
\* A key of malzeme_ihtiyaclari.  The source formats it into one string:
\*   "Duvar Paneli (Toplam)", "Cati Kaplama (Toplam)",
\*   f"{oda_adi} Zemin ({malzeme_adi})", f"{oda_adi} Duvar ({malzeme_adi})",
\*   f"Pencere {i+1} ({genislik}x{yukseklik}m)", f"Kapi {i+1} (...)",
\*   "Tesisat ve Baglanti Elemanlari (Tahmini)".
Etiket(tur, ad, malzeme_adi, sira, genislik, yukseklik) ==
    [tur |-> tur, ad |-> ad, malzeme |-> malzeme_adi, sira |-> sira,
     genislik |-> genislik, yukseklik |-> yukseklik]

EtiketDuvarPaneli == Etiket("Duvar Paneli (Toplam)", "", "", 0, 0, 0)
EtiketCati == Etiket("Cati Kaplama (Toplam)", "", "", 0, 0, 0)
EtiketZemin(oda_adi, malzeme_adi) == Etiket("Zemin", oda_adi, malzeme_adi, 0, 0, 0)
EtiketDuvar(oda_adi, malzeme_adi) == Etiket("Duvar", oda_adi, malzeme_adi, 0, 0, 0)
EtiketPencere(k, p) == Etiket("Pencere", "", "", k, p.genislik, p.yukseklik)
EtiketKapi(k, p) == Etiket("Kapi", "", "", k, p.genislik, p.yukseklik)
EtiketTesisat == Etiket("Tesisat ve Baglanti Elemanlari (Tahmini)", "", "", 0, 0, 0)

Satir(net, gerekli, birim, fiyat, tutar) ==
    [net_miktar |-> net, gerekli_miktar |-> gerekli, birim_olcu |-> birim,
     birim_fiyat |-> fiyat, maliyet |-> tutar]

\* d[k] = v on a Python dict.
Ata(d, k, v) == [x \in DOMAIN d \cup {k} |-> IF x = k THEN v ELSE d[x]]
BosSozluk == [x \in {} |-> Sifir]

\* --------------------------------------------------------- loop control
Kapilara(ev, k) ==
    IF k <= Len(ev.kapi_listesi) THEN <<"kapi", k>> ELSE <<"tesisat", 0>>
Pencerelere(ev, k) ==
    IF k <= Len(ev.pencere_listesi) THEN <<"pencere", k>> ELSE Kapilara(ev, 1)
Odalara(ev, k) ==
    IF k <= Len(ev.oda_listesi) THEN <<"zemin", k>> ELSE Pencerelere(ev, 1)

BosEv ==
    [kat_sayisi |-> 1, cati_tipi |-> "Duz", cati_egim_acisi |-> 0,
     oda_listesi |-> <<>>, pencere_listesi |-> <<>>, kapi_listesi |-> <<>>]

\* -------------------------------------------------------- line formulas
BirArti(fire) == RAdd(Bir, fire)

\* AlanSatiri with the cost taken from the net quantity, the waste left out.
AlanSatiri_NettenMaliyet(net, malzeme, fiyat) ==
    LET gerekli_miktar == RMul(net, BirArti(malzeme.varsayilan_fire_orani))
    IN  Satir(net, gerekli_miktar, malzeme.birim_olcu_tipi, fiyat.birim_fiyat,
              RMul(net, fiyat.birim_fiyat))

\* Lines 219-227, 237-245, 292-300, 340-348: quantity by area.
AlanSatiri(net, malzeme, fiyat) ==
    LET gerekli_miktar == RMul(net, BirArti(malzeme.varsayilan_fire_orani))
    IN  Satir(net, gerekli_miktar, malzeme.birim_olcu_tipi, fiyat.birim_fiyat,
              RMul(gerekli_miktar, fiyat.birim_fiyat))

\* Lines 281-290: tiles by the piece.
FayansSatiri(net, fayans_m2, malzeme, fiyat) ==
    LET gerekli_adet == RMul(RDiv(net, fayans_m2),
                             BirArti(malzeme.varsayilan_fire_orani))
    IN  Satir(net, gerekli_adet, "adet", fiyat.birim_fiyat,
              RMul(gerekli_adet, fiyat.birim_fiyat))

\* Lines 325-335: paint by the litre.
BoyaSatiri(net, sarfiyat_degeri, ek_ozellikler, malzeme, fiyat) ==
    LET kat_sayisi == get(ek_ozellikler, "kat_sayisi", Bir)
        gerekli_litre == RMul(RMul(RMul(net, sarfiyat_degeri), kat_sayisi),
                              BirArti(malzeme.varsayilan_fire_orani))
    IN  Satir(net, gerekli_litre, "litre", fiyat.birim_fiyat,
              RMul(gerekli_litre, fiyat.birim_fiyat))

\* Lines 360-368 and 382-390: openings by the piece.
AdetSatiri(adet, fiyat) ==
    Satir(Tam(adet), Tam(adet), "adet", fiyat.birim_fiyat,
          RMul(Tam(adet), fiyat.birim_fiyat))

\* ZeminSatiri without the test on the material's name: any floor material
\* of a room with a tile size is counted by the piece.
ZeminSatiri_AdaBakmadan(d, oda_adi, net, info) ==
    LET malzeme == info.malzeme
        fiyat == info.fiyat[1]
        ek_ozellikler == ek_ozellikler_getir(d, oda_adi, "Zemin")
    IN  IF /\ Icinde("fayans_boyut_m2", ek_ozellikler)
           /\ RLt(Sifir, Deger(ek_ozellikler, "fayans_boyut_m2"))
        THEN FayansSatiri(net, Deger(ek_ozellikler, "fayans_boyut_m2"),
                          malzeme, fiyat)
        ELSE AlanSatiri(net, malzeme, fiyat)

\* Lines 271-300: the floor line of a room, given the priced material.
ZeminSatiri(d, oda_adi, net, info) ==
    LET malzeme == info.malzeme
        fiyat == info.fiyat[1]
        ek_ozellikler == ek_ozellikler_getir(d, oda_adi, "Zemin")
    IN  IF /\ malzeme.malzeme_adi = "Fayans"
           /\ Icinde("fayans_boyut_m2", ek_ozellikler)
           /\ RLt(Sifir, Deger(ek_ozellikler, "fayans_boyut_m2"))
        THEN FayansSatiri(net, Deger(ek_ozellikler, "fayans_boyut_m2"),
                          malzeme, fiyat)
        ELSE AlanSatiri(net, malzeme, fiyat)

\* Line 313: [s for s in sarfiyat if s["uygulama_turu"] == "Duvar"]
DuvarSarfiyati(info) ==
    LET DuvarMi(r) == r.uygulama_turu = "Duvar"
    IN  SelectSeq(info.sarfiyat, DuvarMi)

\* Line 375.  A door name is a sequence of words; str.lower() acts word by
\* word and the substring test looks for the words "ana", "giris" in a row.
\* "GIRIS" stands for the word in capitals, written with the dotted capital
\* I (U+0130): str.lower() turns that letter into "i" followed by the
\* combining dot U+0307, written "i." here, so the result is not "giris".
KucukHarf(kelime) ==
    CASE kelime = "Ana" -> "ana"
      [] kelime = "Giris" -> "giris"
      [] kelime = "ANA" -> "ana"
      [] kelime = "GIRIS" -> "gi.ri.s"
      [] kelime = "Main" -> "main"
      [] kelime = "Entrance" -> "entrance"
      [] kelime = "Oda" -> "oda"
      [] kelime = "Kapisi" -> "kapisi"
      [] OTHER -> kelime
lower(ad) == [k \in DOMAIN ad |-> KucukHarf(ad[k])]
Icerir(aranan, ad) ==
    \E k \in 0..(Len(ad) - Len(aranan)) :
        \A j \in DOMAIN aranan : ad[k + j] = aranan[j]
kategori_kapi(kapi) ==
    IF Icerir(<<"ana", "giris">>, lower(kapi.kapi_adi)) THEN "Dis Kapi"
    ELSE "Ic Kapi"

\* ----------------------------------------------- effects shared by steps
\* A step that writes a line: the mapping entry, `maliyet`, and
\* `toplam_maliyet_temp += maliyet`.
SatirYaz(etiket, satir) ==
    /\ malzeme_ihtiyaclari' = Ata(malzeme_ihtiyaclari, etiket, satir)
    /\ maliyet' = satir.maliyet
    /\ toplam_maliyet_temp' = RAdd(toplam_maliyet_temp, satir.maliyet)
    /\ atlanan' = atlanan

\* A step whose `if malzeme_info and malzeme_info["fiyat"]` fails.
Atla ==
    /\ UNCHANGED << malzeme_ihtiyaclari, maliyet, toplam_maliyet_temp >>
    /\ atlanan' = atlanan + 1

Ilerle(hedef) ==
    /\ pc' = hedef[1]
    /\ i' = hedef[2]

\* -------------------------------------------------------------- actions
\* calculate_cost, lines 506-548: builds ev_data from the form lists (rooms
\* with a blank name and openings with adet <= 0 are left out) and constructs
\* the EvHesaplayici.
OdaAdiVar(oda) == oda.oda_adi # ""
AdetPozitif(x) == x.adet > 0

ev_data(form) ==
    [kat_sayisi |-> form.kat_sayisi, cati_tipi |-> form.cati_tipi,
     cati_egim_acisi |-> form.cati_egim_acisi,
     oda_listesi |-> SelectSeq(form.oda_listesi, OdaAdiVar),
     pencere_listesi |-> SelectSeq(form.pencere_listesi, AdetPozitif),
     kapi_listesi |-> SelectSeq(form.kapi_listesi, AdetPozitif)]

\* EvHesaplayici.__init__, lines 169-173.
EvHesaplayici_init(ev, kim) ==
    /\ pc = "bos"
    /\ cagiran' = kim
    /\ ev_bilgileri' = ev
    /\ malzeme_ihtiyaclari' = BosSozluk
    /\ toplam_proje_maliyeti' = Sifir
    /\ pc' = "hesapla"
    /\ UNCHANGED << dbvars, i, alan, toplam_maliyet_temp, maliyet, atlanan, cevre >>

calculate_cost(form) ==
    /\ messages' = <<>>
    /\ EvHesaplayici_init(ev_data(form), "calculate_cost")

\* An EvHesaplayici constructed on an ev_data of the caller's own.
Dogrudan(ev) ==
    /\ EvHesaplayici_init(ev, "dogrudan")
    /\ UNCHANGED messages

\* malzeme_ihtiyacini_hesapla, lines 207-209.
Hesapla ==
    /\ pc = "hesapla"
    /\ alan' = _alan_hesapla(ev_bilgileri)
    /\ malzeme_ihtiyaclari' = BosSozluk
    /\ toplam_maliyet_temp' = Sifir
    /\ maliyet' = Tanimsiz
    /\ atlanan' = 0
    /\ Ilerle(<<"duvar_paneli", 0>>)
    /\ UNCHANGED << dbvars, cagiran, ev_bilgileri, toplam_proje_maliyeti, messages,
                    cevre >>

\* Sabit with the application details cleared by the step that read them.
Sabit_DetaylariSilerek ==
    /\ UygulamaDetaylari' = <<>>
    /\ UNCHANGED << Malzemeler, Fiyatlar, Sarfiyatlar, cagiran, ev_bilgileri, alan,
                    toplam_proje_maliyeti, messages, cevre >>

\* What a step leaves alone besides its own effect.
Sabit == UNCHANGED << dbvars, cagiran, ev_bilgileri, alan, toplam_proje_maliyeti,
                      messages, cevre >>

\* Lines 211-230.
DuvarPanelleri ==
    /\ pc = "duvar_paneli"
    /\ LET malzeme_info == malzeme_bilgisi_getir(db, "Duvar Paneli")
       IN  IF Fiyatli(malzeme_info)
           THEN SatirYaz(EtiketDuvarPaneli,
                         AlanSatiri(NetDuvarPaneller(alan), malzeme_info[1].malzeme,
                                    malzeme_info[1].fiyat[1]))
           ELSE Atla
    /\ Ilerle(<<"cati", 0>>)
    /\ Sabit

\* Lines 232-248.
CatiKaplama ==
    /\ pc = "cati"
    /\ LET malzeme_info == malzeme_bilgisi_getir(db, "Cati Paneli")
       IN  IF Fiyatli(malzeme_info)
           THEN SatirYaz(EtiketCati,
                         AlanSatiri(alan.cati_alani, malzeme_info[1].malzeme,
                                    malzeme_info[1].fiyat[1]))
           ELSE Atla
    /\ Ilerle(Odalara(ev_bilgileri, 1))
    /\ Sabit

\* Lines 252-254 and 264-303: the floor covering of room i.
ZeminKaplama ==
    /\ pc = "zemin"
    /\ LET oda == ev_bilgileri.oda_listesi[i]
           zemin_alani_net == alan.oda_alanlari[oda.oda_adi].zemin
           malzeme_info_zemin == malzeme_bilgisi_getir(db, oda.zemin_kaplama_tipi)
       IN  IF Fiyatli(malzeme_info_zemin)
           THEN SatirYaz(EtiketZemin(oda.oda_adi,
                                     malzeme_info_zemin[1].malzeme.malzeme_adi),
                         ZeminSatiri(db, oda.oda_adi, zemin_alani_net,
                                     malzeme_info_zemin[1]))
           ELSE Atla
    /\ Ilerle(<<"duvar", i>>)
    /\ Sabit

\* calculate_cost, lines 568-575: `except Exception` around the run.
IstisnaYakala ==
    /\ pc' = "hata"
    /\ messages' = IF cagiran = "calculate_cost"
                   THEN Append(messages, [type |-> "danger",
                                          message |-> "Beklenmedik bir hata olustu"])
                   ELSE messages
    /\ UNCHANGED << i, malzeme_ihtiyaclari, maliyet, toplam_maliyet_temp >>

\* Lines 255-262 and 305-351: the wall covering of room i.  Line 349,
\* `toplam_maliyet_temp += maliyet`, closes the `if malzeme_info_duvar ...`
\* block: it runs after the paint branch as after the other one, and reads
\* whatever `maliyet` holds then.
DuvarKaplama ==
    /\ pc = "duvar"
    /\ LET oda == ev_bilgileri.oda_listesi[i]
           duvar_alani_net == OdaDuvarNet(alan, oda.oda_adi)
           malzeme_info_duvar == malzeme_bilgisi_getir(db, oda.duvar_kaplama_tipi)
           malzeme == malzeme_info_duvar[1].malzeme
           fiyat == malzeme_info_duvar[1].fiyat[1]
           sarfiyat_data == DuvarSarfiyati(malzeme_info_duvar[1])
           boya == BoyaSatiri(duvar_alani_net, sarfiyat_data[1].sarfiyat_degeri,
                              ek_ozellikler_getir(db, oda.oda_adi, "Duvar"),
                              malzeme, fiyat)
           diger == AlanSatiri(duvar_alani_net, malzeme, fiyat)
       IN  IF ~Fiyatli(malzeme_info_duvar)
           THEN /\ Atla
                /\ Ilerle(Odalara(ev_bilgileri, i + 1))
                /\ UNCHANGED messages
           ELSE IF malzeme.malzeme_adi = "Boya"
           THEN IF sarfiyat_data # <<>>
                THEN /\ malzeme_ihtiyaclari' =
                            Ata(malzeme_ihtiyaclari,
                                EtiketDuvar(oda.oda_adi, malzeme.malzeme_adi), boya)
                     /\ maliyet' = boya.maliyet
                     /\ toplam_maliyet_temp' =
                            RAdd(RAdd(toplam_maliyet_temp, boya.maliyet), boya.maliyet)
                     /\ atlanan' = atlanan
                     /\ Ilerle(Odalara(ev_bilgileri, i + 1))
                     /\ UNCHANGED messages
                ELSE /\ atlanan' = atlanan + 1
                     /\ IF IsSayi(maliyet)
                        THEN /\ toplam_maliyet_temp' = RAdd(toplam_maliyet_temp, maliyet)
                             /\ UNCHANGED << malzeme_ihtiyaclari, maliyet, messages >>
                             /\ Ilerle(Odalara(ev_bilgileri, i + 1))
                        ELSE IstisnaYakala
           ELSE /\ SatirYaz(EtiketDuvar(oda.oda_adi, malzeme.malzeme_adi), diger)
                /\ Ilerle(Odalara(ev_bilgileri, i + 1))
                /\ UNCHANGED messages
    /\ UNCHANGED << dbvars, cagiran, ev_bilgileri, alan, toplam_proje_maliyeti,
                    cevre >>

\* Lines 354-371: window i.
Pencereler ==
    /\ pc = "pencere"
    /\ LET pencere == ev_bilgileri.pencere_listesi[i]
           malzeme_info == malzeme_bilgisi_getir(db, "PVC Pencere")
       IN  IF Fiyatli(malzeme_info)
           THEN SatirYaz(EtiketPencere(i, pencere),
                         AdetSatiri(pencere.adet, malzeme_info[1].fiyat[1]))
           ELSE Atla
    /\ Ilerle(Pencerelere(ev_bilgileri, i + 1))
    /\ Sabit

\* Lines 374-393: door i.
Kapilar ==
    /\ pc = "kapi"
    /\ LET kapi == ev_bilgileri.kapi_listesi[i]
           malzeme_info == malzeme_bilgisi_getir(db, kategori_kapi(kapi))
       IN  IF Fiyatli(malzeme_info)
           THEN SatirYaz(EtiketKapi(i, kapi),
                         AdetSatiri(kapi.adet, malzeme_info[1].fiyat[1]))
           ELSE Atla
    /\ Ilerle(Kapilara(ev_bilgileri, i + 1))
    /\ Sabit

\* Lines 395-408: the overhead line and the return.
tesisat_baglanti_orani == R(15, 100)

Tesisat ==
    /\ pc = "tesisat"
    /\ LET tahmini_tesisat_maliyeti ==
               RMul(toplam_maliyet_temp, tesisat_baglanti_orani)
       IN  /\ malzeme_ihtiyaclari' =
                 Ata(malzeme_ihtiyaclari, EtiketTesisat,
                     Satir(NA, NA, "TL", Bir, tahmini_tesisat_maliyeti))
           /\ toplam_maliyet_temp' =
                 RAdd(toplam_maliyet_temp, tahmini_tesisat_maliyeti)
           /\ toplam_proje_maliyeti' =
                 RAdd(toplam_maliyet_temp, tahmini_tesisat_maliyeti)
    /\ Ilerle(<<"bitti", 0>>)
    /\ UNCHANGED << dbvars, cagiran, ev_bilgileri, alan, maliyet, messages, atlanan,
                    cevre >>

\* ------------------------------------------------------- catalog states
\* The seeded catalog with the materials of `yok` missing, the materials of
\* `fiyatsiz` without a price row, the consumption rows `sarf` and the
\* application details `detay`.
Katalog(yok, fiyatsiz, sarf, detay) ==
    LET Kalan(r) == r.malzeme_adi \notin yok
        FiyatKalir(r) ==
            \A k \in DOMAIN TohumMalzemeler :
                TohumMalzemeler[k].malzeme_id = r.malzeme_id
                    => TohumMalzemeler[k].malzeme_adi \notin fiyatsiz
    IN  [Malzemeler |-> SelectSeq(TohumMalzemeler, Kalan),
         Fiyatlar |-> SelectSeq(TohumFiyatlar, FiyatKalir),
         Sarfiyatlar |-> sarf,
         UygulamaDetaylari |-> detay]

TohumKatalog == Katalog({}, {}, TohumSarfiyatlar, TohumDetaylar)

\* Property bags of the floor row and of the wall row, in pairs.
OzellikCiftleri ==
    { <<JsonNull, JsonNull>>,
      <<JsonBozuk, JsonBozuk>>,
      <<JsonNesne({}), JsonNesne({})>>,
      <<JsonNesne({<<"fayans_boyut_m2", Sifir>>}), JsonNesne({<<"kat_sayisi", Sifir>>})>>,
      <<JsonNesne({<<"fayans_boyut_m2", R(-9, 100)>>}),
        JsonNesne({<<"kat_sayisi", Tam(-1)>>})>>,
      <<JsonNesne({<<"fayans_boyut_m2", R(1, 4)>>}), JsonNesne({<<"kat_sayisi", Tam(3)>>})>> }

DetayTablolari ==
    {<<>>} \cup {DetayTablosu(c[1], c[2]) : c \in OzellikCiftleri}

\* Up to MaxEksik materials are missing, or up to MaxEksik have no price; the
\* paint's consumption row is there or not; or the catalog is complete and
\* the application details vary.
EnFazla(S, n) == {x \in SUBSET S : Cardinality(x) <= n}
Kataloglar ==
    { Katalog(yok, {}, sarf, TohumDetaylar) :
        yok \in EnFazla(MalzemeAdlari, MaxEksik), sarf \in {TohumSarfiyatlar, <<>>} }
    \cup { Katalog({}, fiyatsiz, sarf, TohumDetaylar) :
        fiyatsiz \in EnFazla(MalzemeAdlari, MaxEksik),
        sarf \in {TohumSarfiyatlar, <<>>} }
    \cup { Katalog({}, {}, TohumSarfiyatlar, t) : t \in DetayTablolari }

\* No query of the run is pending.
BosTutulan == [konum |-> <<"bos", 0>>, asama |-> "yok", getir |-> 0, sorgula |-> 0]

\* Between requests: get_db has closed the connection of the last request
\* (line 463); the seed prices carry the date of the startup day.
DurgunDurum ==
    /\ cagiran = "yok"
    /\ ev_bilgileri = BosEv
    /\ pc = "bos"
    /\ i = 0
    /\ alan = _alan_hesapla(BosEv)
    /\ malzeme_ihtiyaclari = BosSozluk
    /\ toplam_maliyet_temp = Sifir
    /\ maliyet = Tanimsiz
    /\ toplam_proje_maliyeti = Sifir
    /\ messages = <<>>
    /\ atlanan = 0
    /\ bugun = 1
    /\ conn = 0
    /\ tutulan = BosTutulan

KatalogYukle(k) ==
    /\ Malzemeler = k.Malzemeler
    /\ Fiyatlar = k.Fiyatlar
    /\ Sarfiyatlar = k.Sarfiyatlar
    /\ UygulamaDetaylari = k.UygulamaDetaylari

Init ==
    /\ \E k \in Kataloglar : KatalogYukle(k)
    /\ DurgunDurum

InitGeo ==
    /\ KatalogYukle(TohumKatalog)
    /\ DurgunDurum

\* ---------------------------------------------------------------- inputs
UpTo(S, n) == UNION {[1..k -> S] : k \in 0..n}

OdaAdlari == {"Salon", "Banyo"}
Oda(ad, olcu, zemin, duvar) ==
    [oda_adi |-> ad, uzunluk |-> olcu[1], genislik |-> olcu[2],
     yukseklik |-> olcu[3], zemin_kaplama_tipi |-> zemin,
     duvar_kaplama_tipi |-> duvar]
Pencere(g, y, adet) == [genislik |-> g, yukseklik |-> y, adet |-> adet]
Kapi(ad, g, y, adet) ==
    [kapi_adi |-> ad, genislik |-> g, yukseklik |-> y, adet |-> adet]
KapiAdlari ==
    { <<"Ana", "Giris">>, <<"Oda", "Kapisi">>, <<"ANA", "GIRIS">>,
      <<"Main", "Entrance">> }

Form(kat, tip, aci, odalar, pencereler, kapilar) ==
    [kat_sayisi |-> kat, cati_tipi |-> tip, cati_egim_acisi |-> aci,
     oda_listesi |-> odalar, pencere_listesi |-> pencereler,
     kapi_listesi |-> kapilar]

\* Forms that vary the coverings: a 3x2x2 "Salon", a 2x1x2 "Banyo".
OlcuKaplama(ad) == IF ad = "Salon" THEN <<3, 2, 2>> ELSE <<2, 1, 2>>
\* <<floor covering, wall covering>>; "Hali" is in no catalog.
Kaplamalar ==
    { <<"Fayans", "Boya">>, <<"Laminat Parke", "Laminat Parke">>, <<"Hali", "Boya">> }
OdalarKaplama ==
    { Oda(ad, OlcuKaplama(ad), k[1], k[2]) : ad \in OdaAdlari, k \in Kaplamalar }
FormKaplama ==
    { Form(1, "Duz", 0, odalar, <<Pencere(1, 1, 1)>>,
           <<Kapi(<<"Ana", "Giris">>, 1, 2, 1), Kapi(<<"Oda", "Kapisi">>, 1, 2, MaxAdet)>>) :
        odalar \in UpTo(OdalarKaplama, MaxOda) }

\* Forms that vary the geometry.
OdaOlculeri == {<<1, 1, 1>>, <<2, 1, 2>>, <<3, 2, 2>>}
OdalarGeometri ==
    { Oda(ad, olcu, "Fayans", "Boya") : ad \in OdaAdlari, olcu \in OdaOlculeri }
PencerelerGeometri == { Pencere(2, 2, adet) : adet \in 0..MaxAdet }
KapilarGeometri == { Kapi(ad, 1, 2, adet) : ad \in KapiAdlari, adet \in 0..MaxAdet }
FormAciklik ==
    { Form(1, "Duz", 0, odalar, pencereler, kapilar) :
        odalar \in UpTo(OdalarGeometri, MaxOda),
        pencereler \in UpTo(PencerelerGeometri, 1),
        kapilar \in UpTo(KapilarGeometri, 1) }
FormCati ==
    { Form(kat, tip, aci, odalar, <<>>, <<>>) :
        kat \in -1..2, tip \in {"Duz", "Besik"}, aci \in Acilar,
        odalar \in UpTo(OdalarGeometri \cup {Oda("", <<1, 1, 1>>, "Fayans", "Boya")}, 1) }
FormGeometri == FormAciklik \cup FormCati

\* ev_data handed to EvHesaplayici by a caller other than calculate_cost.
EvDogrudan == { f \in FormAciklik : f.oda_listesi = <<>> }

\* ------------------------------------------------------ price writes
\* fiyat_id INTEGER PRIMARY KEY AUTOINCREMENT: one more than the largest id.
RECURSIVE EnBuyukFiyatId(_)
EnBuyukFiyatId(fiyatlar) ==
    IF fiyatlar = <<>> THEN 0
    ELSE LET kalan == EnBuyukFiyatId(Tail(fiyatlar))
         IN  IF fiyatlar[1].fiyat_id > kalan THEN fiyatlar[1].fiyat_id ELSE kalan

\* veri_ekle("Fiyatlar", {"malzeme_id", "birim_fiyat", "gecerlilik_tarihi"}),
\* lines 93-108.  Dates are ISO texts, which sort as the days they name.
veri_ekle_fiyat(fiyatlar, mid, birim_fiyat, tarih) ==
    Append(fiyatlar, FiyatSatiri(EnBuyukFiyatId(fiyatlar) + 1, mid, birim_fiyat, tarih))

\* veri_guncelle("Fiyatlar", {"birim_fiyat"}, {"fiyat_id"}), lines 110-123.
veri_guncelle_fiyat(fiyatlar, fiyat_id, birim_fiyat) ==
    [k \in DOMAIN fiyatlar |->
        IF fiyatlar[k].fiyat_id = fiyat_id
        THEN [fiyatlar[k] EXCEPT !.birim_fiyat = birim_fiyat]
        ELSE fiyatlar[k]]

\* What a write to Fiyatlar leaves alone.
FiyatDisinda ==
    UNCHANGED << Malzemeler, Sarfiyatlar, UygulamaDetaylari, cagiran, ev_bilgileri,
                 pc, i, alan, malzeme_ihtiyaclari, toplam_maliyet_temp, maliyet,
                 toplam_proje_maliyeti, messages, atlanan, conn, tutulan >>

\* post_admin_fiyatlar, lines 618-641, for one form field birim_fiyat_<id>:
\* the first row of the material dated today is updated, or a row dated
\* today is inserted.
post_admin_fiyatlar(malzeme_id, birim_fiyat) ==
    LET Bugunku(r) == r.malzeme_id = malzeme_id /\ r.gecerlilik_tarihi = bugun
        existing_price_for_today == SelectSeq(Fiyatlar, Bugunku)
    IN  /\ Fiyatlar' =
              IF existing_price_for_today # <<>>
              THEN veri_guncelle_fiyat(Fiyatlar, existing_price_for_today[1].fiyat_id,
                                       birim_fiyat)
              ELSE veri_ekle_fiyat(Fiyatlar, malzeme_id, birim_fiyat, bugun)
        /\ bugun' = bugun
        /\ FiyatDisinda

\* A quote entered through veri_ekle with an effective date of its own.
FiyatEkle(malzeme_id, birim_fiyat, tarih) ==
    /\ Fiyatlar' = veri_ekle_fiyat(Fiyatlar, malzeme_id, birim_fiyat, tarih)
    /\ bugun' = bugun
    /\ FiyatDisinda

\* The date changes.
GunGecti ==
    /\ bugun < MaxGun
    /\ bugun' = bugun + 1
    /\ UNCHANGED Fiyatlar
    /\ FiyatDisinda

\* veri_ekle("Malzemeler", ...), lines 93-108: malzeme_adi is UNIQUE, so a
\* second row of a name raises IntegrityError and the table stays as it is.
veri_ekle_malzeme(malzemeler, adi, kategori) ==
    IF \E k \in DOMAIN malzemeler : malzemeler[k].malzeme_adi = adi
    THEN malzemeler
    ELSE Append(malzemeler, MalzemeSatiri(Len(malzemeler) + 1, adi, kategori, "m2", Sifir))

MalzemeEkle(adi, kategori) ==
    /\ Malzemeler' = veri_ekle_malzeme(Malzemeler, adi, kategori)
    /\ UNCHANGED << Fiyatlar, Sarfiyatlar, UygulamaDetaylari, cagiran, ev_bilgileri,
                    pc, i, alan, malzeme_ihtiyaclari, toplam_maliyet_temp, maliyet,
                    toplam_proje_maliyeti, messages, atlanan, cevre >>

\* ------------------------------------------- the shared connection
\* db_yoneticisi is one object for all requests (line 679) and get_db hands
\* it to each of them.  sqlite3.connect is called with check_same_thread at
\* its default, so a connection works only in the thread that made it: in
\* another thread execute, cursor and close raise ProgrammingError.
\*
\* baglan, lines 20-22, run by the thread `kim`: a connection that is None or
\* fails "SELECT 1" is replaced by a new one of that thread.
baglan_kontrol(c, kim) == IF c = kim THEN c ELSE kim

\* The steps of the run that query the catalog, the identifier each passes
\* to malzeme_bilgisi_getir, and the position that follows the step.
SorguAdimi == pc \in {"duvar_paneli", "cati", "zemin", "duvar", "pencere", "kapi"}
Aranan ==
    CASE pc = "duvar_paneli" -> "Duvar Paneli"
      [] pc = "cati" -> "Cati Paneli"
      [] pc = "zemin" -> ev_bilgileri.oda_listesi[i].zemin_kaplama_tipi
      [] pc = "duvar" -> ev_bilgileri.oda_listesi[i].duvar_kaplama_tipi
      [] pc = "pencere" -> "PVC Pencere"
      [] pc = "kapi" -> kategori_kapi(ev_bilgileri.kapi_listesi[i])
Sonraki ==
    CASE pc = "duvar_paneli" -> <<"cati", 0>>
      [] pc = "cati" -> Odalara(ev_bilgileri, 1)
      [] pc = "zemin" -> <<"duvar", i>>
      [] pc = "duvar" -> Odalara(ev_bilgileri, i + 1)
      [] pc = "pencere" -> Pencerelere(ev_bilgileri, i + 1)
      [] pc = "kapi" -> Kapilara(ev_bilgileri, i + 1)

\* The query of the step at <<pc, i>> has begun.
Bekleyen == tutulan.konum = <<pc, i>>

\* What a move on the connection leaves alone.
BaglantiDisinda ==
    UNCHANGED << dbvars, cagiran, ev_bilgileri, pc, i, alan, malzeme_ihtiyaclari,
                 toplam_maliyet_temp, maliyet, toplam_proje_maliyeti, messages,
                 atlanan, bugun >>

\* malzeme_bilgisi_getir line 141 entering baglan: lines 20-22.
GetirBaglan ==
    /\ SorguAdimi
    /\ ~Bekleyen
    /\ conn' = baglan_kontrol(conn, 1)
    /\ tutulan' = [konum |-> <<pc, i>>, asama |-> "getir_baglan", getir |-> 0,
                   sorgula |-> 0]
    /\ BaglantiDisinda

\* Line 23, `return self.conn`, read after the test of lines 20-22.
GetirDon ==
    /\ SorguAdimi
    /\ Bekleyen
    /\ tutulan.asama = "getir_baglan"
    /\ tutulan' = [tutulan EXCEPT !.asama = "getir_don", !.getir = conn]
    /\ UNCHANGED conn
    /\ BaglantiDisinda

\* veri_sorgula line 126 entering baglan (line 142 has let the call go on).
SorgulaBaglan ==
    /\ SorguAdimi
    /\ Bekleyen
    /\ tutulan.asama = "getir_don"
    /\ tutulan.getir # 0
    /\ conn' = baglan_kontrol(conn, 1)
    /\ tutulan' = [tutulan EXCEPT !.asama = "sorgula_baglan"]
    /\ BaglantiDisinda

SorgulaDon ==
    /\ SorguAdimi
    /\ Bekleyen
    /\ tutulan.asama = "sorgula_baglan"
    /\ tutulan' = [tutulan EXCEPT !.asama = "sorgula_don", !.sorgula = conn]
    /\ UNCHANGED conn
    /\ BaglantiDisinda

\* Both calls returned a connection of the run's own thread, or the material
\* is in no row, so that line 147 returns before line 151 uses `conn`.
BaglantiSaglam ==
    /\ Bekleyen
    /\ tutulan.asama = "sorgula_don"
    /\ tutulan.sorgula = 1
    /\ tutulan.getir = 1 \/ malzeme_bilgisi_getir(db, Aranan) = <<>>

\* The query returns no material though the catalog has it: line 142 got
\* None from baglan, or veri_sorgula got None (line 127) or a connection of
\* another thread, whose ProgrammingError lines 136-138 turn into [].  The
\* step then takes the branch of a missing material.
SorguBos ==
    /\ SorguAdimi
    /\ Bekleyen
    /\ \/ tutulan.asama = "getir_don" /\ tutulan.getir = 0
       \/ tutulan.asama = "sorgula_don" /\ tutulan.sorgula # 1
    /\ Atla
    /\ Ilerle(Sonraki)
    /\ Sabit

\* Line 151 runs `conn.execute` on a connection of another thread: the
\* ProgrammingError leaves malzeme_bilgisi_getir and the run.
SorguHata ==
    /\ SorguAdimi
    /\ Bekleyen
    /\ tutulan.asama = "sorgula_don"
    /\ tutulan.sorgula = 1
    /\ tutulan.getir = 2
    /\ malzeme_bilgisi_getir(db, Aranan) # <<>>
    /\ IstisnaYakala
    /\ UNCHANGED << dbvars, cagiran, ev_bilgileri, alan, toplam_proje_maliyeti,
                    atlanan, cevre >>

\* Another request, in a thread of its own, while the run is in flight: its
\* queries call baglan, and its end runs get_db's `finally`, lines 462-463,
\* where baglantiyi_kapat closes the connection if it is that thread's.
BaskaBaglan ==
    /\ pc \notin {"bos", "bitti", "hata"}
    /\ conn # 2
    /\ conn' = baglan_kontrol(conn, 2)
    /\ UNCHANGED tutulan
    /\ BaglantiDisinda

BaskaKapat ==
    /\ pc \notin {"bos", "bitti", "hata"}
    /\ conn = 2
    /\ conn' = 0
    /\ UNCHANGED tutulan
    /\ BaglantiDisinda

\* The end of the run's own request: get_db's `finally`.
IstekBitti ==
    /\ pc \in {"bitti", "hata"}
    /\ conn = 1
    /\ conn' = 0
    /\ UNCHANGED tutulan
    /\ BaglantiDisinda

\* ------------------------------------------------------- specifications
Adim ==
    \/ Hesapla
    \/ DuvarPanelleri
    \/ CatiKaplama
    \/ ZeminKaplama
    \/ DuvarKaplama
    \/ Pencereler
    \/ Kapilar
    \/ Tesisat

\* A request arrives with a form of the catalog-oriented family, or a caller
\* runs the estimator on its own ev_data.
Istek ==
    /\ pc = "bos"
    /\ \E form \in FormKaplama : calculate_cost(form)

DogrudanCagri ==
    /\ pc = "bos"
    /\ \E ev \in EvDogrudan : Dogrudan(ev)

Next == Istek \/ DogrudanCagri \/ Adim

Spec == Init /\ [][Next]_vars

\* The same program on the seeded catalog, with forms that vary the geometry.
IstekGeo ==
    /\ pc = "bos"
    /\ \E form \in FormGeometri : calculate_cost(form)

NextGeo == IstekGeo \/ DogrudanCagri \/ Adim

SpecGeo == InitGeo /\ [][NextGeo]_vars

\* ================================================================ claims
RECURSIVE MaliyetToplami(_, _)
\* The sum of the "maliyet" fields of the lines of m whose keys are in S.
MaliyetToplami(m, S) ==
    IF S = {} THEN Sifir
    ELSE LET e == CHOOSE x \in S : TRUE
         IN  RAdd(m[e].maliyet, MaliyetToplami(m, S \ {e}))

Dondu == pc = "bitti"
BoyaSatiriVar ==
    \E e \in DOMAIN malzeme_ihtiyaclari : e.tur = "Duvar" /\ e.malzeme = "Boya"

\* C1: when malzeme_ihtiyacini_hesapla has returned, the grand total equals
\* the sum of the costs of all lines of the returned mapping, the overhead
\* line included.
C1_ToplamSatirlarinToplami ==
    Dondu => toplam_proje_maliyeti =
                 MaliyetToplami(malzeme_ihtiyaclari, DOMAIN malzeme_ihtiyaclari)

\* C2: every returned mapping holds the overhead line, and its cost is 0.15
\* times the sum of the costs of all other lines of the mapping.
C2_TesisatYuzdeOnBes ==
    Dondu =>
        /\ EtiketTesisat \in DOMAIN malzeme_ihtiyaclari
        /\ malzeme_ihtiyaclari[EtiketTesisat].maliyet =
               RMul(R(15, 100),
                    MaliyetToplami(malzeme_ihtiyaclari,
                                   DOMAIN malzeme_ihtiyaclari \ {EtiketTesisat}))

\* C3: when the run has returned, the caller holds as many warnings as the
\* run skipped steps (steps whose material, price or consumption rate was
\* missing and that therefore wrote no line).
C3_AtlananKadarUyari ==
    Dondu => Len(messages) = atlanan

\* C4: the run never raises: whatever the catalog lacks, it does not end in
\* an exception.
C4_HicIstisnaYok ==
    pc # "hata"

\* C5, as stated: every line of the mapping, the overhead line included, has
\* a numeric required quantity and cost = required quantity x unit price.
C5_HerSatirCarpim ==
    \A e \in DOMAIN malzeme_ihtiyaclari :
        /\ IsSayi(malzeme_ihtiyaclari[e].gerekli_miktar)
        /\ malzeme_ihtiyaclari[e].maliyet =
               RMul(malzeme_ihtiyaclari[e].gerekli_miktar,
                    malzeme_ihtiyaclari[e].birim_fiyat)

\* C5, amended: every line other than the overhead line has cost = required
\* quantity x unit price; the overhead line carries the marker "N/A" as its
\* required quantity and the unit price 1.0.
C5_TesisatDisindaCarpim ==
    \A e \in DOMAIN malzeme_ihtiyaclari :
        IF e = EtiketTesisat
        THEN /\ malzeme_ihtiyaclari[e].gerekli_miktar = NA
             /\ malzeme_ihtiyaclari[e].birim_fiyat = Bir
        ELSE /\ IsSayi(malzeme_ihtiyaclari[e].gerekli_miktar)
             /\ malzeme_ihtiyaclari[e].maliyet =
                    RMul(malzeme_ihtiyaclari[e].gerekli_miktar,
                         malzeme_ihtiyaclari[e].birim_fiyat)

\* C5 witness: a returned mapping with the overhead line, a tile line counted
\* by the piece and a paint line.
C5_Tanik ==
    /\ Dondu
    /\ BoyaSatiriVar
    /\ \E e \in DOMAIN malzeme_ihtiyaclari :
          e.tur = "Zemin" /\ malzeme_ihtiyaclari[e].birim_olcu = "adet"

Max0(x) == IF RLt(x, Sifir) THEN Sifir ELSE x

\* C6: no line of the mapping has a negative net quantity, and the wall-panel
\* net area is max(0, total gross wall - total window area - total door area).
C6_NetMiktarNegatifDegil ==
    /\ \A e \in DOMAIN malzeme_ihtiyaclari :
          IsSayi(malzeme_ihtiyaclari[e].net_miktar)
              => RLe(Sifir, malzeme_ihtiyaclari[e].net_miktar)
    /\ EtiketDuvarPaneli \in DOMAIN malzeme_ihtiyaclari
          => malzeme_ihtiyaclari[EtiketDuvarPaneli].net_miktar =
                 Max0(Tam(ToplamDuvarBrut(ev_bilgileri.oda_listesi)
                          - AcikliklarAlani(ev_bilgileri.pencere_listesi)
                          - AcikliklarAlani(ev_bilgileri.kapi_listesi)))

\* C7: the mapping holds a window (door) line only for a window (door) entry
\* of ev_bilgileri whose count is > 0, and each such line has required
\* quantity = count and cost = count x unit price.
C7_YalnizPozitifAdet ==
    \A e \in DOMAIN malzeme_ihtiyaclari :
        e.tur \in {"Pencere", "Kapi"} =>
            LET giris == IF e.tur = "Pencere"
                         THEN ev_bilgileri.pencere_listesi[e.sira]
                         ELSE ev_bilgileri.kapi_listesi[e.sira]
                satir == malzeme_ihtiyaclari[e]
            IN  /\ giris.adet > 0
                /\ satir.gerekli_miktar = Tam(giris.adet)
                /\ satir.maliyet = RMul(Tam(giris.adet), satir.birim_fiyat)

\* C8: a paint wall line has required quantity = net x rate x coats x
\* (1 + waste), where coats is the "kat_sayisi" property of the room's wall
\* detail, and 1 when that property is absent or not positive.
C8_BoyaKatSayisi ==
    \A e \in DOMAIN malzeme_ihtiyaclari :
        (e.tur = "Duvar" /\ e.malzeme = "Boya") =>
            LET info == malzeme_bilgisi_getir(db, "Boya")[1]
                oran == DuvarSarfiyati(info)[1].sarfiyat_degeri
                ozellikler == ek_ozellikler_getir(db, e.ad, "Duvar")
                kat == IF /\ Icinde("kat_sayisi", ozellikler)
                          /\ RLt(Sifir, Deger(ozellikler, "kat_sayisi"))
                       THEN Deger(ozellikler, "kat_sayisi")
                       ELSE Bir
                satir == malzeme_ihtiyaclari[e]
            IN  satir.gerekli_miktar =
                    RMul(RMul(RMul(satir.net_miktar, oran), kat),
                         BirArti(info.malzeme.varsayilan_fire_orani))

\* C9: while the run is at room i, the areas it uses for that room are the
\* room's own: floor = length x width, gross wall = 2 x (length + width) x
\* height; and the floor line just written for room i has that floor area as
\* its net quantity.
C9_OdaKendiAlani ==
    pc \in {"zemin", "duvar"} =>
        LET oda == ev_bilgileri.oda_listesi[i]
            info == malzeme_bilgisi_getir(db, oda.zemin_kaplama_tipi)
        IN  /\ alan.oda_alanlari[oda.oda_adi].zemin = Tam(oda.uzunluk * oda.genislik)
            /\ alan.oda_alanlari[oda.oda_adi].duvar =
                   Tam(2 * (oda.uzunluk + oda.genislik) * oda.yukseklik)
            /\ (pc = "duvar" /\ Fiyatli(info)) =>
                   malzeme_ihtiyaclari[EtiketZemin(oda.oda_adi,
                                                   info[1].malzeme.malzeme_adi)].net_miktar
                       = Tam(oda.uzunluk * oda.genislik)

\* The floor line the run has just written for room i (pc = "duvar").
ZeminSatiriYazildi ==
    /\ pc = "duvar"
    /\ Fiyatli(malzeme_bilgisi_getir(db, ev_bilgileri.oda_listesi[i].zemin_kaplama_tipi))

\* C10: the floor line of a room is counted by the piece (unit "adet",
\* required = (net / tile area) x (1 + waste)) exactly when the resolved
\* material is "Fayans" and the first (room, "Zemin") detail row parses to an
\* object with a positive "fayans_boyut_m2"; otherwise required = net x
\* (1 + waste) in the material's own unit.
C10_FayansAdetHesabi ==
    ZeminSatiriYazildi =>
        LET oda == ev_bilgileri.oda_listesi[i]
            malzeme == malzeme_bilgisi_getir(db, oda.zemin_kaplama_tipi)[1].malzeme
            satir == malzeme_ihtiyaclari[EtiketZemin(oda.oda_adi, malzeme.malzeme_adi)]
            satirlar == {k \in DOMAIN UygulamaDetaylari :
                            /\ UygulamaDetaylari[k].oda_tipi = oda.oda_adi
                            /\ UygulamaDetaylari[k].uygulama_alani = "Zemin"}
            ilk == UygulamaDetaylari[CHOOSE k \in satirlar : \A j \in satirlar : k <= j]
            boyutlar == IF satirlar # {} /\ ilk.ek_ozellikler.bicim = "json"
                        THEN {u[2] : u \in {v \in ilk.ek_ozellikler.nesne :
                                               v[1] = "fayans_boyut_m2"}}
                        ELSE {}
            fire == BirArti(malzeme.varsayilan_fire_orani)
        IN  IF malzeme.malzeme_adi = "Fayans" /\ \E b \in boyutlar : RLt(Sifir, b)
            THEN /\ satir.birim_olcu = "adet"
                 /\ \E b \in boyutlar :
                       satir.gerekli_miktar = RMul(RDiv(satir.net_miktar, b), fire)
            ELSE /\ satir.birim_olcu = malzeme.birim_olcu_tipi
                 /\ satir.birim_olcu # "adet"
                 /\ satir.gerekli_miktar = RMul(satir.net_miktar, fire)

\* C10 witness: a tile floor line counted by the piece has just been written.
C10_Tanik ==
    /\ ZeminSatiriYazildi
    /\ \E e \in DOMAIN malzeme_ihtiyaclari :
          /\ e.tur = "Zemin"
          /\ e.ad = ev_bilgileri.oda_listesi[i].oda_adi
          /\ e.malzeme = "Fayans"
          /\ malzeme_ihtiyaclari[e].birim_olcu = "adet"


\* The areas of _alan_hesapla have been computed for the run's ev_bilgileri.
AlanHesaplandi == pc \notin {"bos", "hesapla"}
DuzVeyaEgimsiz ==
    ev_bilgileri.cati_tipi = "Duz" \/ ev_bilgileri.cati_egim_acisi <= 0
EnAzBir(n) == IF n > 1 THEN n ELSE 1

\* C11: when the roof type is "Duz" or the pitch angle is <= 0, the roof area
\* is the total floor area divided by max(kat_sayisi, 1), whatever the floor
\* count (0 and negative counts included).
C11_DuzCatiAlani ==
    (AlanHesaplandi /\ DuzVeyaEgimsiz) =>
        alan.cati_alani = R(ToplamTaban(ev_bilgileri.oda_listesi),
                            EnAzBir(ev_bilgileri.kat_sayisi))

\* A pitched-type roof with a negative angle on a house of floor count <= 0
\* with a room, after the areas are computed.
C11_Tanik ==
    /\ AlanHesaplandi
    /\ ev_bilgileri.cati_tipi = "Besik"
    /\ ev_bilgileri.cati_egim_acisi < 0
    /\ ev_bilgileri.kat_sayisi < 0
    /\ ev_bilgileri.oda_listesi # <<>>

\* Case folding as the comparison of the claim means it: a word and its
\* capitalised and upper-case spellings are the same word.
Katla(kelime) ==
    CASE kelime \in {"Ana", "ANA", "ana"} -> "ana"
      [] kelime \in {"Giris", "GIRIS", "giris"} -> "giris"
      [] kelime \in {"Main", "MAIN", "main"} -> "main"
      [] kelime \in {"Entrance", "ENTRANCE", "entrance"} -> "entrance"
      [] OTHER -> kelime
AnaGirisMi(ad) ==
    LET katli == [k \in DOMAIN ad |-> Katla(ad[k])]
    IN  Icerir(<<"main", "entrance">>, katli) \/ Icerir(<<"ana", "giris">>, katli)
GuncelBirimFiyat(ad) == malzeme_bilgisi_getir(db, ad)[1].fiyat[1].birim_fiyat

\* C12: on the seeded catalog, the line of door k carries the unit price of
\* "Dis Kapi" if the door's name contains "main entrance" or "ana giris"
\* compared without regard to case, and the unit price of "Ic Kapi" otherwise.
C12_KapiKategorisi ==
    \A e \in DOMAIN malzeme_ihtiyaclari :
        e.tur = "Kapi" =>
            malzeme_ihtiyaclari[e].birim_fiyat =
                GuncelBirimFiyat(IF AnaGirisMi(ev_bilgileri.kapi_listesi[e.sira].kapi_adi)
                                 THEN "Dis Kapi" ELSE "Ic Kapi")

\* ------------------------------------------------ the price history
\* The materials whose prices are written: "Fayans" (with its seed quote)
\* and "Boya" (which starts without a quote).
FiyatiYazilanlar == {3, 5}
YazilanFiyatlar == {Tam(1), Tam(2)}
EklenenSayisi == Len(Fiyatlar) - Len(TohumFiyatlar) + 1

InitFiyat ==
    /\ KatalogYukle(Katalog({}, {"Boya"}, TohumSarfiyatlar, TohumDetaylar))
    /\ DurgunDurum

FiyatGonder ==
    /\ EklenenSayisi < MaxEkleme
    /\ \E mid \in FiyatiYazilanlar, f \in YazilanFiyatlar : post_admin_fiyatlar(mid, f)

FiyatGir ==
    /\ EklenenSayisi < MaxEkleme
    /\ \E mid \in FiyatiYazilanlar, f \in YazilanFiyatlar, t \in 1..MaxGun :
          FiyatEkle(mid, f, t)

NextFiyat == FiyatGonder \/ FiyatGir \/ GunGecti

SpecFiyat == InitFiyat /\ [][NextFiyat]_vars

\* The quotes of a material by their position in the table, which is the
\* order of their insertion.
Teklifler(mid) == {k \in DOMAIN Fiyatlar : Fiyatlar[k].malzeme_id = mid}
SonTarihliler(mid) ==
    {k \in Teklifler(mid) :
        \A j \in Teklifler(mid) :
            Fiyatlar[j].gecerlilik_tarihi <= Fiyatlar[k].gecerlilik_tarihi}
EnSonEklenen(S) == CHOOSE k \in S : \A j \in S : j <= k

\* C13: for each material, malzeme_bilgisi_getir returns no price exactly
\* when the material has no quote, and otherwise the quote inserted last
\* among those that carry the material's latest effective date.
C13_GuncelFiyatSonTeklif ==
    \A m \in DOMAIN Malzemeler :
        LET mid == Malzemeler[m].malzeme_id
            fiyat == malzeme_bilgisi_getir(db, Malzemeler[m].malzeme_adi)[1].fiyat
        IN  IF Teklifler(mid) = {} THEN fiyat = <<>>
            ELSE fiyat = << Fiyatlar[EnSonEklenen(SonTarihliler(mid))] >>

\* A material with two quotes of its latest date and a quote of an earlier
\* date inserted after them.
C13_Tanik ==
    \E mid \in FiyatiYazilanlar :
        \E a, b, c \in Teklifler(mid) :
            /\ a < b /\ b < c
            /\ {a, b} \subseteq SonTarihliler(mid)
            /\ c \notin SonTarihliler(mid)
            /\ Fiyatlar[a].birim_fiyat # Fiyatlar[b].birim_fiyat

\* ------------------------------------------------- the material table
\* Names and categories that overlap: "Zemin Kaplama" and "Boya" can be the
\* name of one material and the category of another.
EklenenAdlar == {"Fayans", "Zemin Kaplama", "Boya"}
EklenenKategoriler == {"Zemin Kaplama", "Boya", "Genel"}
Tanimlayicilar == EklenenAdlar \cup EklenenKategoriler \cup {"Hali"}

\* After tablo_olustur, before any material is inserted.
InitMalzeme ==
    /\ KatalogYukle([Malzemeler |-> <<>>, Fiyatlar |-> <<>>, Sarfiyatlar |-> <<>>,
                     UygulamaDetaylari |-> <<>>])
    /\ DurgunDurum

MalzemeGir ==
    /\ Len(Malzemeler) < MaxMalzeme
    /\ \E adi \in EklenenAdlar, kategori \in EklenenKategoriler :
          MalzemeEkle(adi, kategori)

NextMalzeme == MalzemeGir

SpecMalzeme == InitMalzeme /\ [][NextMalzeme]_vars

AdiVar(ad) == \E k \in DOMAIN Malzemeler : Malzemeler[k].malzeme_adi = ad
KategorisiVar(ad) == \E k \in DOMAIN Malzemeler : Malzemeler[k].malzeme_kategori = ad

\* C14: malzeme_bilgisi_getir(ad) returns the material named ad when there is
\* one, even if other materials have the category ad; a material of the
\* category ad when no material is named ad; and nothing when neither exists.
C14_AdKategoridenOnce ==
    \A ad \in Tanimlayicilar :
        LET info == malzeme_bilgisi_getir(db, ad)
        IN  IF AdiVar(ad)
            THEN info # <<>> /\ info[1].malzeme.malzeme_adi = ad
            ELSE IF KategorisiVar(ad)
            THEN info # <<>> /\ info[1].malzeme.malzeme_kategori = ad
            ELSE info = <<>>

\* A material whose name is the category of a material inserted before it.
C14_Tanik ==
    \E a, b \in DOMAIN Malzemeler :
        /\ a < b
        /\ Malzemeler[b].malzeme_adi = Malzemeler[a].malzeme_kategori
        /\ Malzemeler[b].malzeme_kategori # Malzemeler[b].malzeme_adi

\* The run is between its first and its last step.
CalisiyorMu == pc \notin {"bos", "bitti", "hata"}

\* C15: no step of a run of malzeme_ihtiyacini_hesapla changes a row of
\* Malzemeler, Fiyatlar, Sarfiyatlar or UygulamaDetaylari, or the ev_data the
\* estimator was given.
C15_KatalogDegismez ==
    [][CalisiyorMu => UNCHANGED << dbvars, ev_bilgileri >>]_vars

\* A run over MaxOda rooms has returned with every line written.
C15_Tanik ==
    /\ Dondu
    /\ cagiran = "calculate_cost"
    /\ Len(ev_bilgileri.oda_listesi) = MaxOda
    /\ atlanan = 0

\* ------------------------------------------------ overlapping requests
\* One house per room of OdaAdlari, every material of which is in the
\* seeded catalog with a price.
FormEs ==
    { Form(1, "Duz", 0, << Oda(ad, OlcuKaplama(ad), "Fayans", "Laminat Parke") >>,
           << Pencere(1, 1, 1) >>, << Kapi(<<"Ana", "Giris">>, 1, 2, 1) >>) :
        ad \in OdaAdlari }

IstekEs ==
    /\ pc = "bos"
    /\ \E form \in FormEs : calculate_cost(form)

\* A step of the run whose query, if it has one, went through.
AdimEs ==
    /\ SorguAdimi => BaglantiSaglam
    /\ Adim

NextEs ==
    \/ IstekEs
    \/ GetirBaglan
    \/ GetirDon
    \/ SorgulaBaglan
    \/ SorgulaDon
    \/ AdimEs
    \/ SorguBos
    \/ SorguHata
    \/ BaskaBaglan
    \/ BaskaKapat
    \/ IstekBitti

SpecEs == InitGeo /\ [][NextEs]_vars

\* The labels of the lines a run alone writes for ev_bilgileri when every
\* material it asks for is in the catalog with a price.
BeklenenEtiketler ==
    LET ev == ev_bilgileri
    IN  {EtiketDuvarPaneli, EtiketCati, EtiketTesisat}
        \cup {EtiketZemin(ev.oda_listesi[k].oda_adi, ev.oda_listesi[k].zemin_kaplama_tipi) :
                 k \in DOMAIN ev.oda_listesi}
        \cup {EtiketDuvar(ev.oda_listesi[k].oda_adi, ev.oda_listesi[k].duvar_kaplama_tipi) :
                 k \in DOMAIN ev.oda_listesi}
        \cup {EtiketPencere(k, ev.pencere_listesi[k]) : k \in DOMAIN ev.pencere_listesi}
        \cup {EtiketKapi(k, ev.kapi_listesi[k]) : k \in DOMAIN ev.kapi_listesi}

\* C16: a run that overlaps another request on the unchanged seeded catalog
\* does not fail, and returns every line it returns when it runs alone.
C16_EsZamanliBagimsiz ==
    /\ pc # "hata"
    /\ Dondu => DOMAIN malzeme_ihtiyaclari = BeklenenEtiketler

\* The wall step of room i writes a line: the material is in the catalog
\* with a price and, if it is "Boya", has a "Duvar" consumption rate.
DuvarSatiriYazilir ==
    LET info == malzeme_bilgisi_getir(db, ev_bilgileri.oda_listesi[i].duvar_kaplama_tipi)
    IN  /\ Fiyatli(info)
        /\ info[1].malzeme.malzeme_adi = "Boya" => DuvarSarfiyati(info[1]) # <<>>
YazilanDuvarEtiketi ==
    LET oda == ev_bilgileri.oda_listesi[i]
    IN  EtiketDuvar(oda.oda_adi,
                    malzeme_bilgisi_getir(db, oda.duvar_kaplama_tipi)[1].malzeme.malzeme_adi)

\* C17: the wall step of a room raises the running total by the cost of the
\* wall line it writes, once, for paint and for the other materials, and
\* leaves the total as it is when it writes no line.
C17_DuvarMaliyetiBirKez ==
    [][(pc = "duvar" /\ << pc, i >>' # << pc, i >>) =>
          toplam_maliyet_temp' =
              IF DuvarSatiriYazilir
              THEN RAdd(toplam_maliyet_temp,
                        malzeme_ihtiyaclari'[YazilanDuvarEtiketi].maliyet)
              ELSE toplam_maliyet_temp]_vars

RECURSIVE NetToplami(_, _)
\* The sum of the "net_miktar" fields of the lines of m whose keys are in S.
NetToplami(m, S) ==
    IF S = {} THEN Sifir
    ELSE LET e == CHOOSE x \in S : TRUE
         IN  RAdd(m[e].net_miktar, NetToplami(m, S \ {e}))
DuvarSatirlari == {e \in DOMAIN malzeme_ihtiyaclari : e.tur = "Duvar"}
OdaAdlariFarkli ==
    \A a, b \in DOMAIN ev_bilgileri.oda_listesi :
        ev_bilgileri.oda_listesi[a].oda_adi = ev_bilgileri.oda_listesi[b].oda_adi => a = b
BrutDuvar == ToplamDuvarBrut(ev_bilgileri.oda_listesi)
Acikliklar ==
    AcikliklarAlani(ev_bilgileri.pencere_listesi) + AcikliklarAlani(ev_bilgileri.kapi_listesi)

\* C18: on the seeded catalog, where every room gets its wall line, a run
\* over rooms of distinct names with a gross wall area > 0 returns wall lines
\* whose net areas add up to the net area of the wall-panel line, which is
\* max(0, gross wall - window area - door area).
C18_OdaNetleriPanelNeti ==
    (Dondu /\ OdaAdlariFarkli /\ BrutDuvar > 0) =>
        /\ NetToplami(malzeme_ihtiyaclari, DuvarSatirlari)
               = malzeme_ihtiyaclari[EtiketDuvarPaneli].net_miktar
        /\ malzeme_ihtiyaclari[EtiketDuvarPaneli].net_miktar
               = Max0(Tam(BrutDuvar - Acikliklar))

\* A returned run over two rooms of different names and sizes with windows
\* and doors that leave part of the wall.
C18_Tanik ==
    /\ Dondu
    /\ OdaAdlariFarkli
    /\ Len(ev_bilgileri.oda_listesi) = 2
    /\ OdaDuvar(ev_bilgileri.oda_listesi[1]) # OdaDuvar(ev_bilgileri.oda_listesi[2])
    /\ AcikliklarAlani(ev_bilgileri.pencere_listesi) > 0
    /\ AcikliklarAlani(ev_bilgileri.kapi_listesi) > 0
    /\ Acikliklar < BrutDuvar
    /\ Cardinality(DuvarSatirlari) = 2
====
